---- MODULE Spec2Model ----
(***************************************************************************)
(* Model of the nmf-pipeline-rs modeling core (src/rust/src/modeling.rs)   *)
(* and of the batch harness around it (src/rust/src/main.rs,               *)
(* src/rust/src/preprocessing.rs).                                         *)
(*                                                                         *)
(* Five specifications share the variables below:                          *)
(*   SpecVocab   build_vocabulary + create_tfidf_matrix on one corpus      *)
(*   SpecRerun   the same two stages run twice on the same corpus          *)
(*   SpecNmf     the nmf multiplicative-update loop                        *)
(*   SpecTopics  print_topics                                              *)
(*   SpecHarness main's sample/iteration/dataset loop                      *)
(*                                                                         *)
(* Numbers.  f32 values are modelled in two ways.  TF-IDF entries are kept *)
(* exact and symbolic: a term frequency is the pair <<count, doc_len>> and *)
(* an idf weight the pair <<N+1, df+1>> under 1 + ln(.).  The NMF factors  *)
(* are fixed-point integers in units of 1/Scale, every product and         *)
(* quotient truncated; the reconstruction error is kept exact in units of  *)
(* 1/Scale^2, and the relative improvement is an IEEE quotient with its    *)
(* NaN and +-Inf outcomes for a zero divisor.                              *)
(***************************************************************************)
EXTENDS Integers, Sequences, FiniteSets, TLC

VARIABLES
  \* ---- SpecVocab
  documents,    \* the corpus: a sequence of documents, each a sequence of tokens
  min_df,       \* the document-frequency threshold
  runs,         \* how many times the two stages are run on the corpus
  vocabs,       \* vocabs[r]: the token -> index map built by run r
  tfidfs,       \* tfidfs[r]: the matrix V built by run r
  normalizers,  \* every doc_len that 1.0 / doc_len was evaluated with
  vpc,          \* position of the two-run driver
  \* ---- SpecNmf
  v, k, max_iter, tol,         \* arguments of nmf
  seed,                        \* state of the random generator the factors are drawn from
  w, h,                        \* the factors
  iter,                        \* loop counter of `for iter in 0..max_iter`
  error_at_init, prev_error,   \* locals of nmf
  errors,                      \* history: the error computed by each iteration
  stopped_at,                  \* history: the iteration whose check broke the loop, or -1
  result,                      \* what nmf returned
  npc,                         \* position inside nmf
  \* ---- SpecTopics
  topic_h, topic_vocab,        \* arguments of print_topics
  topics,                      \* the labels pushed so far
  tpc,
  \* ---- SpecHarness
  tokens_csv,                  \* the file tokens.csv: absent, or who wrote it
  pass,                        \* <<sample index, iteration, dataset>> of the loop
  hpc,                         \* position inside main
  modeling_runs,               \* history: one record per modeling::start that loaded documents
  exit_status                  \* what main returned

vocabVars == <<documents, min_df, runs, vocabs, tfidfs, normalizers, vpc>>
nmfVars == <<v, k, max_iter, tol, seed, w, h, iter, error_at_init, prev_error,
             errors, stopped_at, result, npc>>
topicVars == <<topic_h, topic_vocab, topics, tpc>>
harnessVars == <<tokens_csv, pass, hpc, modeling_runs, exit_status>>
vars == <<vocabVars, nmfVars, topicVars, harnessVars>>

\* ---------------------------------------------------------------- helpers

Range(s) == {s[i] : i \in 1..Len(s)}

SeqsUpTo(S, n) == UNION {[1..m -> S] : m \in 0..n}

\* every enumeration order of a finite set
Orders(S) == {o \in [1..Cardinality(S) -> S] : \A i, j \in 1..Cardinality(S) : o[i] = o[j] => i = j}

\* nmf has not returned
NoResult == [kind |-> "none", w |-> <<>>, h |-> <<>>]

\* tokens.csv does not exist
Absent == [exists |-> FALSE, by |-> <<0, 0, 0>>, complete |-> FALSE]

\* the variables a specification does not use
IdleVocab ==
  /\ documents = <<>> /\ min_df = 0 /\ runs = 0 /\ vocabs = <<>> /\ tfidfs = <<>>
  /\ normalizers = {} /\ vpc = "idle"

IdleNmf ==
  /\ v = <<>> /\ k = 0 /\ max_iter = 0 /\ tol = <<0, 1>> /\ seed = 0 /\ w = <<>> /\ h = <<>>
  /\ iter = 0 /\ error_at_init = 0 /\ prev_error = 0 /\ errors = <<>>
  /\ stopped_at = -1 /\ result = NoResult /\ npc = "idle"

IdleTopics ==
  /\ topic_h = <<>> /\ topic_vocab = <<>> /\ topics = <<>> /\ tpc = "idle"

IdleHarness ==
  /\ tokens_csv = Absent /\ pass = <<0, 0, 0>> /\ hpc = "idle"
  /\ modeling_runs = <<>> /\ exit_status = "running"

\* ================================================================ SpecVocab
\* bounds of the corpus
MaxDocs == 3
MaxDocLen == 2
Tokens == {"cat", "dog"}

Docs == SeqsUpTo(Tokens, MaxDocLen)
Corpora == SeqsUpTo(Docs, MaxDocs)

\* doc.iter().collect::<HashSet<_>>() and the count per token: the keys are the
\* tokens that occur somewhere, the value the number of documents holding the key
DocCountsByOccurrence(docs) ==
  [t \in UNION {Range(docs[d]) : d \in 1..Len(docs)} |->
     Cardinality({<<d, i>> \in (1..Len(docs)) \X (1..MaxDocLen + 1) :
                    i <= Len(docs[d]) /\ docs[d][i] = t})]

DocCounts(docs) ==
  [t \in UNION {Range(docs[d]) : d \in 1..Len(docs)} |->
     Cardinality({d \in 1..Len(docs) : t \in Range(docs[d])})]

\* the loop over doc_counts in the order the map enumerates its entries:
\* a retained token takes next_idx, which then grows by one
RECURSIVE AssignIndices(_, _, _, _, _)
AssignIndices(order, counts, mindf, pos, acc) ==
  IF pos > Len(order) THEN acc
  ELSE LET token == order[pos]
           next_idx == Cardinality(DOMAIN acc)
       IN IF counts[token] >= mindf
          THEN AssignIndices(order, counts, mindf, pos + 1,
                             [t \in DOMAIN acc \cup {token} |->
                                IF t = token THEN next_idx ELSE acc[t]])
          ELSE AssignIndices(order, counts, mindf, pos + 1, acc)

EmptyMap == [t \in {} |-> 0]

\* the set of maps build_vocabulary can return: one per enumeration order of
\* the HashMap doc_counts (std's RandomState seeds every map differently)
build_vocabulary(docs, mindf) ==
  LET counts == DocCounts(docs)
  IN {AssignIndices(o, counts, mindf, 1, EmptyMap) : o \in Orders(DOMAIN counts)}

\* ---- create_tfidf_matrix
ZeroTf == <<0, 1>>
ZeroEntry == [tf |-> ZeroTf, idf |-> <<1, 1>>, zero |-> TRUE]

ValidTokens(doc, vocab) == Cardinality({i \in 1..Len(doc) : doc[i] \in DOMAIN vocab})

TokenAt(vocab, idx) == CHOOSE t \in DOMAIN vocab : vocab[t] = idx

\* one row of tf: untouched (0.0) when valid_tokens == 0, else 1.0 / doc_len
\* added once per occurrence of a vocabulary token
TfRow(doc, vocab) ==
  LET valid_tokens == ValidTokens(doc, vocab)
      vocab_size == Cardinality(DOMAIN vocab)
  IN IF valid_tokens = 0
     THEN [c \in 1..vocab_size |-> ZeroTf]
     ELSE [c \in 1..vocab_size |->
             LET n == Cardinality({i \in 1..Len(doc) :
                                     doc[i] \in DOMAIN vocab /\ vocab[doc[i]] = c - 1})
             IN IF n = 0 THEN ZeroTf ELSE <<n, valid_tokens>>]

\* the values doc_len takes in the divisions 1.0 / doc_len of one document
TfDivisors(doc, vocab) ==
  LET valid_tokens == ValidTokens(doc, vocab)
  IN IF valid_tokens = 0 THEN {}
     ELSE {valid_tokens : i \in {j \in 1..Len(doc) : doc[j] \in DOMAIN vocab}}

\* idf[token_idx] = 1 + ln((num_docs + 1) / (docs_with_token + 1)), kept as
\* the pair under the logarithm
Idf(docs, vocab) ==
  [c \in 1..Cardinality(DOMAIN vocab) |->
     LET token == TokenAt(vocab, c - 1)
         docs_with_token == Cardinality({d \in 1..Len(docs) : token \in Range(docs[d])})
     IN <<Len(docs) + 1, docs_with_token + 1>>]

\* 1 + ln(n/d) > 0  iff  n/d > 1/e
IdfPositive(idf) == 2718 * idf[1] > 1000 * idf[2]

\* row *= &idf, then x.max(0.0)
RowPlusIdf(tfrow, idf) ==
  [c \in DOMAIN tfrow |-> [tf |-> tfrow[c], idf |-> idf[c], zero |-> FALSE]]

RowTimesIdf(tfrow, idf) ==
  [c \in DOMAIN tfrow |->
     IF tfrow[c][1] = 0 \/ ~IdfPositive(idf[c])
     THEN ZeroEntry
     ELSE [tf |-> tfrow[c], idf |-> idf[c], zero |-> FALSE]]

create_tfidf_matrix(docs, vocab) ==
  LET idf == Idf(docs, vocab)
  IN [d \in 1..Len(docs) |-> RowTimesIdf(TfRow(docs[d], vocab), idf)]

MinDfs == 0..MaxDocs + 1

InitCorpus(n) ==
  /\ documents \in Corpora
  /\ min_df \in MinDfs
  /\ runs = n
  /\ vocabs = <<>> /\ tfidfs = <<>> /\ normalizers = {}
  /\ vpc = "vocab"
  /\ IdleNmf /\ IdleTopics /\ IdleHarness

BuildVocabulary ==
  /\ vpc = "vocab"
  /\ \E vocab \in build_vocabulary(documents, min_df) :
       vocabs' = Append(vocabs, vocab)
  /\ vpc' = "tfidf"
  /\ UNCHANGED <<documents, min_df, runs, tfidfs, normalizers>>
  /\ UNCHANGED <<nmfVars, topicVars, harnessVars>>

CreateTfidfMatrix ==
  /\ vpc = "tfidf"
  /\ LET vocab == vocabs[Len(vocabs)]
     IN /\ tfidfs' = Append(tfidfs, create_tfidf_matrix(documents, vocab))
        /\ normalizers' = normalizers \cup
             UNION {TfDivisors(documents[d], vocab) : d \in 1..Len(documents)}
  /\ vpc' = IF Len(tfidfs) + 1 < runs THEN "vocab" ELSE "done"
  /\ UNCHANGED <<documents, min_df, runs, vocabs>>
  /\ UNCHANGED <<nmfVars, topicVars, harnessVars>>

NextVocab == BuildVocabulary \/ CreateTfidfMatrix

\* one run of the two stages
InitVocab == InitCorpus(1)

SpecVocab == InitVocab /\ [][NextVocab]_vars

\* the two stages run twice on the same corpus with the same min_df
InitRerun == InitCorpus(2)

SpecRerun == InitRerun /\ [][NextVocab]_vars

\* ---------------------------------------------------------------- claims on SpecVocab

\* the number of documents containing token t at least once
DocFreq(t) == Cardinality({d \in 1..Len(documents) : \E i \in 1..Len(documents[d]) : documents[d][i] = t})

IsBijectionOntoPrefix(vocab) ==
  /\ \A t \in DOMAIN vocab : vocab[t] \in 0..Cardinality(DOMAIN vocab) - 1
  /\ \A s, t \in DOMAIN vocab : vocab[s] = vocab[t] => s = t
  /\ \A i \in 0..Cardinality(DOMAIN vocab) - 1 : \E t \in DOMAIN vocab : vocab[t] = i

\* C1 as stated: every vocabulary built is a bijection onto [0, vocab_size), and
\* a token is in it if and only if its document frequency is >= min_df.
C1_AsStated ==
  \A r \in 1..Len(vocabs) :
    /\ IsBijectionOntoPrefix(vocabs[r])
    /\ \A t \in Tokens : t \in DOMAIN vocabs[r] <=> DocFreq(t) >= min_df

\* C1 amended: every vocabulary built is a bijection onto [0, vocab_size), and a
\* token is in it if and only if it occurs in some document and its document
\* frequency is >= min_df; an empty corpus, or a min_df larger than the number
\* of documents, gives an empty vocabulary.
C1_VocabularyContract ==
  \A r \in 1..Len(vocabs) :
    /\ IsBijectionOntoPrefix(vocabs[r])
    /\ \A t \in Tokens :
         t \in DOMAIN vocabs[r] <=> (DocFreq(t) >= 1 /\ DocFreq(t) >= min_df)
    /\ (Len(documents) = 0 \/ min_df > Len(documents)) => DOMAIN vocabs[r] = {}

\* a token repeated inside one document is kept out by min_df = 2 while another
\* token, present in two documents, is retained
C1_Witness ==
  /\ Len(vocabs) >= 1
  /\ min_df = 2
  /\ \E s, t \in Tokens :
       /\ s \in DOMAIN vocabs[1] /\ t \notin DOMAIN vocabs[1]
       /\ \E d \in 1..Len(documents) : documents[d] = <<t, t>>
       /\ \E d \in 1..Len(documents) : documents[d] = <<s, s>>

\* C2: the two runs on the same corpus and min_df assign the same indices and
\* build the same matrix V.
C2_SameAssignmentAndMatrix ==
  (vpc = "done" /\ runs = 2) => (vocabs[1] = vocabs[2] /\ tfidfs[1] = tfidfs[2])

MatchedTokens(doc, vocab) == {i \in 1..Len(doc) : doc[i] \in DOMAIN vocab}

\* C3: a document with no vocabulary-matched token gives an all-zero row of V,
\* and no division 1.0 / doc_len is ever evaluated with doc_len = 0.
C3_ZeroRowNoZeroDivision ==
  /\ 0 \notin normalizers
  /\ \A r \in 1..Len(tfidfs) : \A d \in 1..Len(documents) :
       MatchedTokens(documents[d], vocabs[r]) = {} =>
         \A c \in DOMAIN tfidfs[r][d] : tfidfs[r][d][c].zero

\* a non-empty document whose tokens were all filtered out, beside a
\* non-empty vocabulary and a document that was divided by its doc_len
C3_Witness ==
  /\ Len(tfidfs) >= 1
  /\ DOMAIN vocabs[1] # {}
  /\ normalizers # {}
  /\ \E d \in 1..Len(documents) :
       /\ Len(documents[d]) > 0
       /\ MatchedTokens(documents[d], vocabs[1]) = {}

\* ================================================================ SpecNmf
\* bounds of the factorization
MaxRows == 2
MaxCols == 2
MaxK == 1
MaxIter == 3

\* fixed point: the integer x stands for x / Scale
Scale == 100
\* let lambda = 0.01
Lambda == 1
\* let eps = 1e-10: below one unit of 1/Scale, as it is below one ulp of the
\* f32 sum it is added to (that sum is >= 0.01)
Eps == 0

\* entries of V: 0.0 and 1.0
VValues == {0, 100}
\* the seeds the generator may start from
MaxSeed == 1
\* the n-th draw of Uniform::new(0.1, 1.0) from a generator started at seed s:
\* a value of [0.10, 0.99]
UniformDraw(s, n) == 10 + ((s * 31 + n * 17) % 90)
\* tol as a fraction <<numerator, denominator>>: the 1e-4 of start(), and 1/2
Tols == {<<1, 10000>>, <<1, 2>>}

\* an Array2 of the given shape whose entry (i, j) is f[i, j]
Matrix(rows, cols, f) ==
  [rows |-> rows, cols |-> cols, a |-> [i \in 1..rows |-> [j \in 1..cols |-> f[i, j]]]]

Matrices(rows, cols, S) ==
  {[rows |-> rows, cols |-> cols, a |-> a] : a \in [1..rows -> [1..cols -> S]]}

RECURSIVE SumTo(_, _)
SumTo(f, n) == IF n = 0 THEN 0 ELSE f[n] + SumTo(f, n - 1)

Transpose(m) ==
  Matrix(m.cols, m.rows, [i \in 1..m.cols, j \in 1..m.rows |-> m.a[j][i]])

\* a.dot(b), every entry truncated back to units of 1/Scale
Dot(a, b) ==
  Matrix(a.rows, b.cols,
         [i \in 1..a.rows, j \in 1..b.cols |->
            SumTo([l \in 1..a.cols |-> a.a[i][l] * b.a[l][j]], a.cols) \div Scale])

AddScalar(m, c) ==
  Matrix(m.rows, m.cols, [i \in 1..m.rows, j \in 1..m.cols |-> m.a[i][j] + c])

ElemDiv(a, b) ==
  Matrix(a.rows, a.cols, [i \in 1..a.rows, j \in 1..a.cols |-> (a.a[i][j] * Scale) \div b.a[i][j]])

ElemMul(a, b) ==
  Matrix(a.rows, a.cols, [i \in 1..a.rows, j \in 1..a.cols |-> (a.a[i][j] * b.a[i][j]) \div Scale])

ElemSub(a, b) ==
  Matrix(a.rows, a.cols, [i \in 1..a.rows, j \in 1..a.cols |-> a.a[i][j] - b.a[i][j]])

\* numerator_h = wt.dot(v)
NumeratorHSparse(wm, vm) == AddScalar(Dot(Transpose(wm), vm), 0 - Lambda)

NumeratorH(wm, vm) == Dot(Transpose(wm), vm)

\* h = h * (wt.dot(v) / (wt.dot(w.dot(h)) + lambda + eps))
UpdatedH(wm, hm, vm) ==
  LET wt == Transpose(wm)
      numerator_h == NumeratorH(wm, vm)
      denominator_h == AddScalar(AddScalar(Dot(wt, Dot(wm, hm)), Lambda), Eps)
  IN ElemMul(hm, ElemDiv(numerator_h, denominator_h))

\* w = w * (v.dot(ht) / (w.dot(h).dot(ht) + lambda + eps))
UpdatedW(wm, hm, vm) ==
  LET ht == Transpose(hm)
      numerator_w == Dot(vm, ht)
      denominator_w == AddScalar(AddScalar(Dot(Dot(wm, hm), ht), Lambda), Eps)
  IN ElemMul(wm, ElemDiv(numerator_w, denominator_w))

\* (v - w.dot(h)).mapv(|x| x.powi(2)).sum(), in units of 1/Scale^2
FrobeniusError(wm, hm, vm) ==
  LET err == ElemSub(vm, Dot(wm, hm))
  IN SumTo([i \in 1..err.rows |->
              SumTo([j \in 1..err.cols |-> err.a[i][j] * err.a[i][j]], err.cols)],
           err.rows)

\* (prev_error - error) / error_at_init as the f32 quotient: a zero divisor
\* gives NaN for 0/0 and an infinity of the dividend's sign otherwise
ErrorDiff(prev, error, init) ==
  IF init # 0 THEN [kind |-> "finite", num |-> prev - error, den |-> init]
  ELSE IF prev - error = 0 THEN [kind |-> "nan", num |-> 0, den |-> 0]
  ELSE IF prev - error > 0 THEN [kind |-> "+inf", num |-> 1, den |-> 0]
  ELSE [kind |-> "-inf", num |-> -1, den |-> 0]

\* error_diff < tol: false for NaN, exact for finite quotients
LessThanTol(diff, t) ==
  CASE diff.kind = "nan" -> FALSE
    [] diff.kind = "+inf" -> FALSE
    [] diff.kind = "-inf" -> TRUE
    [] OTHER -> diff.num * t[2] < t[1] * diff.den

\* error_diff < tol && iter > 0
BreakAlways(diff, t, it) == LessThanTol(diff, t)

Break(diff, t, it) == LessThanTol(diff, t) /\ it > 0

\* prev_error = error
NextPrevError(prev, error, it) == error

\* for iter in 0..max_iter
LoopRunsOneMore(it, maxit) == it <= maxit

LoopRuns(it, maxit) == it < maxit

InitNmf ==
  /\ \E d \in 0..MaxRows, vs \in 0..MaxCols : v \in Matrices(d, vs, VValues)
  /\ k \in 0..MaxK
  /\ max_iter \in 0..MaxIter
  /\ tol \in Tols
  /\ seed \in 0..MaxSeed
  /\ w = <<>> /\ h = <<>>
  /\ iter = 0 /\ error_at_init = 0 /\ prev_error = 0
  /\ errors = <<>> /\ stopped_at = -1 /\ result = NoResult
  /\ npc = "init"
  /\ IdleVocab /\ IdleTopics /\ IdleHarness

\* Array2::random((docs, k), w_dist), Array2::random((k, vocab_size), h_dist)
RandomInit ==
  /\ npc = "init"
  /\ w' = Matrix(v.rows, k,
         [i \in 1..v.rows, j \in 1..k |-> UniformDraw(seed, (i - 1) * k + j)])
  /\ h' = Matrix(k, v.cols,
         [i \in 1..k, j \in 1..v.cols |->
            UniformDraw(seed, v.rows * k + (i - 1) * v.cols + j)])
  /\ seed' = seed + v.rows * k + k * v.cols
  /\ npc' = "loop"
  /\ UNCHANGED <<v, k, max_iter, tol, iter, error_at_init, prev_error, errors,
                 stopped_at, result>>
  /\ UNCHANGED <<vocabVars, topicVars, harnessVars>>

UpdateH ==
  /\ npc = "loop"
  /\ LoopRuns(iter, max_iter)
  /\ h' = UpdatedH(w, h, v)
  /\ npc' = "updateW"
  /\ UNCHANGED <<v, k, max_iter, tol, seed, w, iter, error_at_init, prev_error, errors,
                 stopped_at, result>>
  /\ UNCHANGED <<vocabVars, topicVars, harnessVars>>

UpdateW ==
  /\ npc = "updateW"
  /\ w' = UpdatedW(w, h, v)
  /\ npc' = "check"
  /\ UNCHANGED <<v, k, max_iter, tol, seed, h, iter, error_at_init, prev_error, errors,
                 stopped_at, result>>
  /\ UNCHANGED <<vocabVars, topicVars, harnessVars>>

\* the error, the bookkeeping of the first iteration, and the break
CheckConvergence ==
  /\ npc = "check"
  /\ LET error == FrobeniusError(w, h, v)
         init == IF iter = 0 THEN error ELSE error_at_init
         prev == IF iter = 0 THEN error ELSE prev_error
         error_diff == ErrorDiff(prev, error, init)
     IN /\ error_at_init' = init
        /\ prev_error' = NextPrevError(prev, error, iter)
        /\ errors' = Append(errors, error)
        /\ IF Break(error_diff, tol, iter)
           THEN /\ npc' = "return"
                /\ stopped_at' = iter
                /\ iter' = iter
           ELSE /\ npc' = "loop"
                /\ stopped_at' = stopped_at
                /\ iter' = iter + 1
  /\ UNCHANGED <<v, k, max_iter, tol, seed, w, h, result>>
  /\ UNCHANGED <<vocabVars, topicVars, harnessVars>>

\* (w, h)
Return ==
  /\ \/ npc = "return"
     \/ npc = "loop" /\ ~LoopRuns(iter, max_iter)
  /\ result' = [kind |-> "pair", w |-> w, h |-> h]
  /\ npc' = "done"
  /\ UNCHANGED <<v, k, max_iter, tol, seed, w, h, iter, error_at_init, prev_error, errors,
                 stopped_at>>
  /\ UNCHANGED <<vocabVars, topicVars, harnessVars>>

NextNmf == RandomInit \/ UpdateH \/ UpdateW \/ CheckConvergence \/ Return

SpecNmf == InitNmf /\ [][NextNmf]_vars

\* ---------------------------------------------------------------- claims on SpecNmf

\* C4: when the error of the first iteration is 0, the convergence check of
\* the second iteration stops the loop.
C4_ZeroInitErrorConverges ==
  (Len(errors) >= 2 /\ errors[1] = 0) => stopped_at = 1

\* C5: nmf never returns a factor pair when k = 0.
C5_ZeroKRejected == k = 0 => result.kind # "pair"

HasShape(m, rows, cols) ==
  /\ m.rows = rows /\ m.cols = cols
  /\ DOMAIN m.a = 1..rows
  /\ \A i \in 1..rows : DOMAIN m.a[i] = 1..cols

\* the guard of some step of nmf holds
NmfCanStep ==
  \/ npc \in {"init", "updateW", "check", "return"}
  \/ npc = "loop" /\ LoopRuns(iter, max_iter)
  \/ npc = "loop" /\ ~LoopRuns(iter, max_iter)

\* the steps nmf has left at most: three per iteration of the budget, the
\* draw of the factors and the return
StepsLeft ==
  CASE npc = "init" -> 3 * max_iter + 2
    [] npc = "loop" -> 3 * (max_iter - iter) + 1
    [] npc = "updateW" -> 3 * (max_iter - iter)
    [] npc = "check" -> 3 * (max_iter - iter) - 1
    [] npc = "return" -> 1
    [] OTHER -> 0

C6_Bounded ==
  /\ npc # "done" => (NmfCanStep /\ StepsLeft >= 1)
  /\ iter <= max_iter
  /\ Len(errors) <= max_iter
  /\ npc \in {"updateW", "check"} => iter < max_iter
  /\ npc = "done" =>
       /\ max_iter = 0 => Len(errors) = 0
       /\ HasShape(result.w, v.rows, k)
       /\ HasShape(result.h, k, v.cols)

\* C6: the loop ends after at most max_iter iterations (none when max_iter = 0)
\* and nmf returns W of shape (num_docs, k) and H of shape (k, vocab_size),
\* whether or not the convergence test fired: until it returns nmf always has
\* a next step, and every step lowers the bounded number of steps left.
C6_TerminatesWithinMaxIter == []C6_Bounded /\ [][StepsLeft' < StepsLeft]_vars

\* every iteration of the budget ran, no convergence test fired, nmf returned
C6_Witness ==
  /\ npc = "done" /\ max_iter = MaxIter /\ Len(errors) = MaxIter /\ stopped_at = -1
  /\ v.rows > 0 /\ v.cols > 0 /\ k > 0

NonNegative(m) == \A i \in 1..m.rows : \A j \in 1..m.cols : m.a[i][j] >= 0

\* C7: with V >= 0 and W, H drawn from [0.1, 1.0], every entry of W and H is
\* >= 0 after the H update and after the W update of every iteration; the
\* updates are the bare products, nothing clips them.
C7_FactorsNonNegative ==
  npc # "init" => NonNegative(w) /\ NonNegative(h)

\* past the W update of a second iteration, on a V with a zero and a non-zero
\* entry, with a factor entry driven to zero and another still positive
C7_Witness ==
  /\ npc = "check" /\ iter >= 1
  /\ \E i \in 1..v.rows, j \in 1..v.cols : v.a[i][j] = 0
  /\ \E i \in 1..v.rows, j \in 1..v.cols : v.a[i][j] > 0
  /\ \E i \in 1..h.rows, j \in 1..h.cols : h.a[i][j] = 0
  /\ \E i \in 1..w.rows, j \in 1..w.cols : w.a[i][j] > 0

\* (E_prev - E_cur) / E_init < tol over the rationals, for E_init > 0
RelativeImprovementBelowTol(eprev, ecur, einit) ==
  (eprev - ecur) * tol[2] < tol[1] * einit

\* C9: the test is not applied on the first iteration; on a later iteration n
\* the loop stops exactly when (E_{n-1} - E_n) / error_at_init < tol, with
\* error_at_init the first error and prev_error the error just before; with
\* max_iter >= 2 two iterations run; for tol > 0 an increase of the error
\* stops the loop.
C9_ConvergenceTest ==
  /\ stopped_at # 0
  /\ Len(errors) >= 1 => (error_at_init = errors[1] /\ prev_error = errors[Len(errors)])
  /\ \A n \in 2..Len(errors) :
       errors[1] > 0 =>
         ((n = Len(errors) /\ stopped_at = n - 1)
            <=> RelativeImprovementBelowTol(errors[n - 1], errors[n], errors[1]))
  /\ (npc = "done" /\ max_iter >= 2) => Len(errors) >= 2
  /\ tol[1] > 0 =>
       \A n \in 2..Len(errors) :
         errors[n] > errors[n - 1] => (n = Len(errors) /\ stopped_at = n - 1)

\* a run that went on after a check that found enough improvement and was then
\* stopped by a later check
C9_Witness ==
  /\ npc = "done" /\ stopped_at = 2 /\ Len(errors) = 3
  /\ errors[1] > 0
  /\ errors[1] > errors[2]


\* ================================================================ SpecTopics
\* bounds of the report
MaxVocab == 11
MaxTopics == 2
MaxTopicSeed == 5
MaxShift == 1

\* weights are integers in units of 0.0001
\* .take(10)
TopN == 10
\* *weight > 0.001
Threshold == 10

\* strings are sequences of characters
Alphabet == <<"a", "b", "c", "d", "e", "f", "g", "h", "i", "j", "k", "l", "m",
              "n", "o", "p", "q", "r", "s", "t", "u", "v", "w", "x", "y", "z">>
DigitChars == <<"0", "1", "2", "3", "4", "5", "6", "7", "8", "9">>

\* the j-th word of the vocabulary: one letter, or the letter doubled
Word(j) ==
  LET c == Alphabet[((j - 1) % 26) + 1]
  IN IF j % 2 = 1 THEN <<c>> ELSE <<c, c>>

\* a vocabulary of n words, word j at index (j - 1 + shift) mod n
VocabOf(n, shift) == [word \in {Word(j) : j \in 1..n} |->
                        LET j == CHOOSE x \in 1..n : Word(x) = word
                        IN (j - 1 + shift) % n]

\* the weights a row of H is filled from, and the rows drawn from them
Palette == <<5000, 4000, 3000, 2000, 1000, 500, 200, 100, 50, 20, 11, 10, 5, 0>>
TopicWeight(s, i, j) ==
  Palette[((s * 3 + (i - 1) * 4 + j * (1 + (s % 3))) % Len(Palette)) + 1]
TopicMatrix(rows, cols, s) == [i \in 1..rows |-> [j \in 1..cols |-> TopicWeight(s, i, j)]]

RECURSIVE Digits(_)
\* format!("{}", n)
Digits(n) == IF n < 10 THEN <<DigitChars[n + 1]>>
             ELSE Digits(n \div 10) \o <<DigitChars[(n % 10) + 1]>>

\* feature_names[idx] = word
FeatureNames(vocab) ==
  [c \in 1..Cardinality(DOMAIN vocab) |-> CHOOSE word \in DOMAIN vocab : vocab[word] = c - 1]

RECURSIVE SortedOrders(_, _)
\* the orders sort_unstable_by(|a, b| b.1.partial_cmp(&a.1)) can leave the
\* columns in: descending weight, equal weights in any order
SortedOrders(remaining, row) ==
  IF remaining = {} THEN {<<>>}
  ELSE LET top == {c \in remaining : \A d \in remaining : row[c] >= row[d]}
       IN UNION {{<<c>> \o rest : rest \in SortedOrders(remaining \ {c}, row)} : c \in top}

\* if *weight > 0.001
AtLeastThreshold(weight) == weight >= Threshold

AboveThreshold(weight) == weight > Threshold

\* weights.iter().take(10)
Take(order) == SubSeq(order, 1, IF Len(order) < TopN THEN Len(order) ELSE TopN)

RECURSIVE PushTerms(_, _, _, _)
\* topic_string.push_str(&format!("{} ", word)) for each kept weight
PushTerms(str, taken, row, names) ==
  IF taken = <<>> THEN str
  ELSE LET c == Head(taken)
       IN PushTerms(IF AboveThreshold(row[c]) THEN str \o names[c] \o <<" ">> ELSE str,
                    Tail(taken), row, names)

RECURSIVE TrimEnd(_)
\* str::trim_end
TrimEnd(str) ==
  IF str # <<>> /\ str[Len(str)] = " " THEN TrimEnd(SubSeq(str, 1, Len(str) - 1)) ELSE str

\* the label of one row, given the order the sort left its columns in
TopicString(topic_idx, order, row, names) ==
  LET topic_string == <<"T", "o", "p", "i", "c", " ">> \o Digits(topic_idx) \o <<":", " ">>
  IN TrimEnd(PushTerms(topic_string, Take(order), row, names))

InitTopics ==
  /\ \E n \in 0..MaxVocab, kk \in 0..MaxTopics, s \in 0..MaxTopicSeed, shift \in 0..MaxShift :
       /\ shift < n \/ shift = 0
       /\ topic_vocab = VocabOf(n, shift)
       /\ topic_h = TopicMatrix(kk, n, s)
  /\ topics = <<>>
  /\ tpc = "rows"
  /\ IdleVocab /\ IdleNmf /\ IdleHarness

\* one pass of the loop over h.axis_iter(Axis(0))
PrintTopic ==
  /\ tpc = "rows"
  /\ Len(topics) < Len(topic_h)
  /\ LET topic_idx == Len(topics)
         row == topic_h[topic_idx + 1]
         names == FeatureNames(topic_vocab)
     IN \E order \in SortedOrders(DOMAIN names, row) :
          topics' = Append(topics, TopicString(topic_idx, order, row, names))
  /\ UNCHANGED <<topic_h, topic_vocab, tpc>>
  /\ UNCHANGED <<vocabVars, nmfVars, harnessVars>>

ReturnTopics ==
  /\ tpc = "rows"
  /\ Len(topics) = Len(topic_h)
  /\ tpc' = "done"
  /\ UNCHANGED <<topic_h, topic_vocab, topics>>
  /\ UNCHANGED <<vocabVars, nmfVars, harnessVars>>

NextTopics == PrintTopic \/ ReturnTopics

SpecTopics == InitTopics /\ [][NextTopics]_vars

\* ---------------------------------------------------------------- claims on SpecTopics

RECURSIVE SplitAtSpaces(_, _, _)
\* the pieces of str between single spaces; cur is the piece being read
SplitAtSpaces(str, cur, acc) ==
  IF str = <<>> THEN Append(acc, cur)
  ELSE IF Head(str) = " " THEN SplitAtSpaces(Tail(str), <<>>, Append(acc, cur))
  ELSE SplitAtSpaces(Tail(str), Append(cur, Head(str)), acc)

RECURSIVE JoinWithLeadingSpace(_)
JoinWithLeadingSpace(terms) ==
  IF terms = <<>> THEN <<>>
  ELSE <<" ">> \o Head(terms) \o JoinWithLeadingSpace(Tail(terms))

\* "Topic i:" followed by " term" for every term
ExpectedLabel(i, terms) ==
  <<"T", "o", "p", "i", "c", " ">> \o Digits(i) \o <<":">> \o JoinWithLeadingSpace(terms)

TermsOf(label) ==
  LET parts == SplitAtSpaces(label, <<>>, <<>>)
  IN IF Len(parts) <= 2 THEN <<>> ELSE SubSeq(parts, 3, Len(parts))

ColumnOf(term) == topic_vocab[term] + 1

HeavyColumns(row) == {c \in DOMAIN row : row[c] > Threshold}

LabelIsTopTerms(i) ==
  LET label == topics[i]
      row == topic_h[i]
      terms == TermsOf(label)
      kept == {ColumnOf(terms[p]) : p \in 1..Len(terms)}
  IN /\ label = ExpectedLabel(i - 1, terms)
     /\ Len(terms) <= 10
     /\ \A p \in 1..Len(terms) : terms[p] \in DOMAIN topic_vocab /\ row[ColumnOf(terms[p])] > Threshold
     /\ \A p, q \in 1..Len(terms) : terms[p] = terms[q] => p = q
     /\ \A p \in 1..Len(terms) - 1 : row[ColumnOf(terms[p])] >= row[ColumnOf(terms[p + 1])]
     /\ IF Cardinality(HeavyColumns(row)) <= 10
        THEN kept = HeavyColumns(row)
        ELSE /\ Cardinality(kept) = 10
             /\ \A c \in DOMAIN row \ kept : \A d \in kept : row[c] <= row[d]

\* C8: one label per row of H, in row order; label i is "Topic i:" followed by
\* the space-separated terms that are among the 10 heaviest of row i and weigh
\* more than 0.001, heaviest first, with no trailing space.
C8_TopicLabels ==
  /\ Len(topics) <= Len(topic_h)
  /\ tpc = "done" => Len(topics) = Len(topic_h)
  /\ \A i \in 1..Len(topics) : LabelIsTopTerms(i)

\* two labels returned: a row with more than 10 terms above the threshold, and
\* a row where a term of weight exactly 0.001 ranks among the first 10
C8_Witness ==
  /\ tpc = "done" /\ Len(topics) = 2
  /\ \E i \in 1..2 : Cardinality(HeavyColumns(topic_h[i])) > 10
  /\ \E i \in 1..2 : \E c \in DOMAIN topic_h[i] :
       /\ topic_h[i][c] = Threshold
       /\ Cardinality({d \in DOMAIN topic_h[i] : topic_h[i][d] > Threshold}) < 10

\* ================================================================ SpecHarness
\* bounds of main's loops: the samples of `for sample in [...]`, `iterations`
\* and `datasets`
MaxSamples == 2
MaxIterations == 2
MaxDatasets == 3

\* tokens.csv as an earlier execution of the program left it
LeftOver == [exists |-> TRUE, by |-> <<0, 0, 0>>, complete |-> TRUE]

\* tokens.csv written by the pass p, to the end or not
WrittenBy(p, complete) == [exists |-> TRUE, by |-> p, complete |-> complete]

\* measure_step's `Err(e) => return Err(e)` and main's `?`: an Err of the
\* preprocessing step ends main
AfterPreprocessingIgnoringErr(ok) == "modeling"

AfterPreprocessing(ok) == IF ok THEN "modeling" ELSE "exit"

\* the same for the modeling step
AfterModeling(ok) == IF ok THEN "next" ELSE "exit"

ExitStatus(next_pc, ok) == IF next_pc = "exit" /\ ~ok THEN "err" ELSE "running"

InitHarness ==
  /\ tokens_csv \in {Absent, LeftOver}
  /\ pass = <<1, 1, 1>>
  /\ hpc = "remove"
  /\ modeling_runs = <<>>
  /\ exit_status = "running"
  /\ IdleVocab /\ IdleNmf /\ IdleTopics

\* preprocessing::start, the two remove_file calls: removing tokens.csv may
\* fail (the file stays), removing files.csv may fail (tokens.csv is gone)
PreprocessRemove ==
  /\ hpc = "remove"
  /\ \E outcome \in {"removed", "tokens_csv_kept", "files_csv_kept"} :
       /\ outcome = "tokens_csv_kept" => tokens_csv.exists
       /\ tokens_csv' = IF outcome = "tokens_csv_kept" THEN tokens_csv ELSE Absent
       /\ LET ok == outcome = "removed"
              next_pc == IF ok THEN "write" ELSE AfterPreprocessing(FALSE)
          IN /\ hpc' = next_pc
             /\ exit_status' = ExitStatus(next_pc, ok)
  /\ UNCHANGED <<pass, modeling_runs>>
  /\ UNCHANGED <<vocabVars, nmfVars, topicVars>>

\* preprocessing::start, load_stopwords and process_files: the stopwords may
\* fail to load (no file yet), process_files creates tokens.csv and may fail
\* on a later file (rows of this pass only), or writes every row
PreprocessWrite ==
  /\ hpc = "write"
  /\ \E outcome \in {"written", "no_stopwords", "read_failed"} :
       /\ tokens_csv' = CASE outcome = "written" -> WrittenBy(pass, TRUE)
                          [] outcome = "no_stopwords" -> Absent
                          [] OTHER -> WrittenBy(pass, FALSE)
       /\ LET ok == outcome = "written"
              next_pc == AfterPreprocessing(ok)
          IN /\ hpc' = next_pc
             /\ exit_status' = ExitStatus(next_pc, ok)
  /\ UNCHANGED <<pass, modeling_runs>>
  /\ UNCHANGED <<vocabVars, nmfVars, topicVars>>

\* modeling::start: load_documents fails on a missing file; otherwise the
\* documents, and the vocabulary and matrices built from them in local
\* variables, come from what tokens.csv holds now; saving the distributions
\* may still fail
ModelingStart ==
  /\ hpc = "modeling"
  /\ IF ~tokens_csv.exists
     THEN /\ modeling_runs' = modeling_runs
          /\ hpc' = AfterModeling(FALSE)
          /\ exit_status' = "err"
     ELSE /\ modeling_runs' = Append(modeling_runs,
                                     [pass |-> pass, documents |-> tokens_csv,
                                      vocab_of |-> tokens_csv.by])
          /\ \E ok \in BOOLEAN :
               /\ hpc' = AfterModeling(ok)
               /\ exit_status' = ExitStatus(AfterModeling(ok), ok)
  /\ UNCHANGED <<tokens_csv, pass>>
  /\ UNCHANGED <<vocabVars, nmfVars, topicVars>>

\* the instrumentation of measure_step (get_process_cpu_time, the metrics
\* writer) fails before or after a step
MetricsFail ==
  /\ hpc \in {"remove", "modeling", "next"}
  /\ hpc' = "exit"
  /\ exit_status' = "err"
  /\ UNCHANGED <<tokens_csv, pass, modeling_runs>>
  /\ UNCHANGED <<vocabVars, nmfVars, topicVars>>

\* the three nested for loops: next dataset, then next iteration, then next
\* sample, then Ok(())
NextPass ==
  /\ hpc = "next"
  /\ LET s == pass[1]
         i == pass[2]
         j == pass[3]
     IN IF j < MaxDatasets THEN /\ pass' = <<s, i, j + 1>>
                                /\ hpc' = "remove"
                                /\ exit_status' = exit_status
        ELSE IF i < MaxIterations THEN /\ pass' = <<s, i + 1, 1>>
                                       /\ hpc' = "remove"
                                       /\ exit_status' = exit_status
        ELSE IF s < MaxSamples THEN /\ pass' = <<s + 1, 1, 1>>
                                    /\ hpc' = "remove"
                                    /\ exit_status' = exit_status
        ELSE /\ pass' = pass
             /\ hpc' = "exit"
             /\ exit_status' = "ok"
  /\ UNCHANGED <<tokens_csv, modeling_runs>>
  /\ UNCHANGED <<vocabVars, nmfVars, topicVars>>

NextHarness == PreprocessRemove \/ PreprocessWrite \/ ModelingStart \/ MetricsFail \/ NextPass

SpecHarness == InitHarness /\ [][NextHarness]_vars

\* ---------------------------------------------------------------- claims on SpecHarness

\* C10: every modeling run reads the tokens.csv that the preprocessing step of
\* its own (sample, iteration, dataset) pass wrote to the end, and builds its
\* vocabulary from those documents; after a failed preprocessing step no
\* modeling step runs.
C10_ModelingReadsOwnPass ==
  /\ \A r \in 1..Len(modeling_runs) :
       /\ modeling_runs[r].documents = WrittenBy(modeling_runs[r].pass, TRUE)
       /\ modeling_runs[r].vocab_of = modeling_runs[r].pass
  /\ hpc = "modeling" => tokens_csv = WrittenBy(pass, TRUE)
  /\ \A r, q \in 1..Len(modeling_runs) : r < q => modeling_runs[r].pass # modeling_runs[q].pass

\* main ended on a preprocessing step that could not remove the tokens.csv of
\* the pass before, after that pass's modeling run
C10_Witness ==
  /\ hpc = "exit" /\ exit_status = "err"
  /\ Len(modeling_runs) >= 1
  /\ tokens_csv.exists
  /\ tokens_csv.by = modeling_runs[Len(modeling_runs)].pass
  /\ tokens_csv.by # pass

====
